---- MODULE Spec2Model ----
(***************************************************************************)
(* Model of e2e_test/python_client/main.py: test_psycopg_extended_mode.    *)
(* The runner is a straight-line script; the server and the client         *)
(* library's decoders are its environment and answer nondeterministically. *)
(***************************************************************************)
EXTENDS Naturals, Sequences, FiniteSets, TLC

VARIABLES pc, conn, cursor, cursorsOpened, stmt, field, resultSet, pos,
          row, fetched, otherPath, sent, connectAttempts, connResponses, responses,
          outcome, failKind, failStmt, failField

vars == <<pc, conn, cursor, cursorsOpened, stmt, field, resultSet, pos,
          row, fetched, otherPath, sent, connectAttempts, connResponses, responses,
          outcome, failKind, failStmt, failField>>

(* Largest number of rows the server puts in one result set. *)
MaxRows == 2

(***************************************************************************)
(* Python values, tagged by their type.                                    *)
(***************************************************************************)
None == <<"none">>
Str(s) == <<"str", s>>
PyInt(n) == <<"int", n>>
Dec(kd) == <<"decimal", kd>>
Flt(kd) == <<"float", kd>>
List(s) == <<"list", s>>
Tuple(s) == <<"tuple", s>>

IsNum(v) == v[1] \in {"decimal", "float"}

(* Python's ==: containers compare by type, length and elements; Decimal   *)
(* and float compare by numeric value; NaN equals nothing.                 *)
RECURSIVE PyEq(_, _)
PyEq(a, b) ==
    IF IsNum(a) /\ IsNum(b) THEN a[2] = b[2] /\ a[2] # "NaN"
    ELSE IF a[1] # b[1] THEN FALSE
    ELSE IF a[1] \in {"list", "tuple"}
         THEN /\ Len(a[2]) = Len(b[2])
              /\ \A i \in 1..Len(a[2]) : PyEq(a[2][i], b[2][i])
    ELSE a = b

(***************************************************************************)
(* The seven statements, in program order.                                 *)
(***************************************************************************)
NumStmts == 7

(* Variant of Statements that requests binary results everywhere. *)
StatementsAllBinary ==
    << [name |-> "int_array",    binary |-> TRUE],
       [name |-> "string_array", binary |-> TRUE],
       [name |-> "row",          binary |-> TRUE],
       [name |-> "array_of_rows", binary |-> TRUE],
       [name |-> "nan",          binary |-> TRUE],
       [name |-> "infinity",     binary |-> TRUE],
       [name |-> "neg_infinity", binary |-> TRUE] >>

Statements ==
    << [name |-> "int_array",    binary |-> TRUE],
       [name |-> "string_array", binary |-> TRUE],
       [name |-> "row",          binary |-> TRUE],
       [name |-> "array_of_rows", binary |-> TRUE],
       [name |-> "nan",          binary |-> TRUE],
       [name |-> "infinity",     binary |-> FALSE],
       [name |-> "neg_infinity", binary |-> FALSE] >>

Addr1 == Tuple(<<Str("123 Main St"), Str("New York"), PyInt(10001)>>)
Addr2(m) == Tuple(<<Str("234 Main St"), m, PyInt(10002)>>)

(* Variant of Expected that writes the nulls as the string "null". *)
ExpectedNullString(k) ==
    CASE k = 1 -> Tuple(<<List(<<PyInt(1), PyInt(2), PyInt(3)>>)>>)
      [] k = 2 -> Tuple(<<List(<<Str("foo"), Str("null"), Str("bar")>>)>>)
      [] k = 3 -> Tuple(<<Addr1>>)
      [] k = 4 -> Tuple(<<List(<<Addr1, Addr2(Str("null"))>>)>>)
      [] k = 6 -> Tuple(<<Flt("Infinity"), Flt("Infinity"), Flt("Infinity")>>)
      [] k = 7 -> Tuple(<<Flt("-Infinity"), Flt("-Infinity"), Flt("-Infinity")>>)

(* The literal each fetched row is compared with (statement 5 has none:    *)
(* it is checked field by field).                                          *)
Expected(k) ==
    CASE k = 1 -> Tuple(<<List(<<PyInt(1), PyInt(2), PyInt(3)>>)>>)
      [] k = 2 -> Tuple(<<List(<<Str("foo"), None, Str("bar")>>)>>)
      [] k = 3 -> Tuple(<<Addr1>>)
      [] k = 4 -> Tuple(<<List(<<Addr1, Addr2(None)>>)>>)
      [] k = 6 -> Tuple(<<Flt("Infinity"), Flt("Infinity"), Flt("Infinity")>>)
      [] k = 7 -> Tuple(<<Flt("-Infinity"), Flt("-Infinity"), Flt("-Infinity")>>)

(* Number of assert statements that follow the fetch of statement k. *)
NumAsserts(k) == IF k = 5 THEN 3 ELSE 1

(* result[0].is_nan(): a method of Decimal only. *)
IsNanMethod(v) ==
    IF v[1] = "decimal" THEN (IF v[2] = "NaN" THEN "ok" ELSE "assert")
    ELSE "type"

(* Variant of MathIsNan that tests "not finite" instead of "is NaN". *)
MathIsNanNotFinite(v) ==
    IF IsNum(v) THEN (IF v[2] # "finite" THEN "ok" ELSE "assert")
    ELSE "type"

(* math.isnan(x): accepts float and Decimal, raises TypeError on None. *)
MathIsNan(v) ==
    IF IsNum(v) THEN (IF v[2] = "NaN" THEN "ok" ELSE "assert")
    ELSE "type"

(* Outcome of the f-th assert of statement k on fetched row r: "ok",       *)
(* "assert" (AssertionError) or "type" (TypeError, AttributeError or       *)
(* IndexError raised while evaluating the asserted expression).            *)
AssertOutcome(k, f, r) ==
    IF k # 5 THEN (IF PyEq(r, Expected(k)) THEN "ok" ELSE "assert")
    ELSE IF r = None THEN "type"
    ELSE IF Len(r[2]) < f THEN "type"
    ELSE IF f = 1 THEN IsNanMethod(r[2][1])
    ELSE MathIsNan(r[2][f])

(* Variant of FetchOne that returns the last row of the result set. *)
FetchOneLast(rs, p) == IF p > Len(rs) THEN None ELSE rs[Len(rs)]

(* cursor.fetchone(): the row at the cursor's position in the result set,  *)
(* None when the position is past the last row.                            *)
FetchOne(rs, p) == IF p > Len(rs) THEN None ELSE rs[p]

(***************************************************************************)
(* Environment: the rows the server and the decoders can produce.          *)
(***************************************************************************)
Middles == {None, Str("null"), Str("")}
NumKinds == {"NaN", "Infinity", "-Infinity", "finite"}
DecCol == {Dec(kd) : kd \in NumKinds} \cup {None}
FltCol == {Flt(kd) : kd \in NumKinds} \cup {None}
InfKinds == {"Infinity", "-Infinity"}

Rows(k) ==
    CASE k = 1 -> { Tuple(<<List(<<PyInt(1), PyInt(2), PyInt(3)>>)>>),
                    Tuple(<<List(<<PyInt(3), PyInt(2), PyInt(1)>>)>>),
                    Tuple(<<List(<<PyInt(1), PyInt(2)>>)>>) }
      [] k = 2 -> { Tuple(<<List(<<Str("foo"), m, Str("bar")>>)>>) : m \in Middles }
      [] k = 3 -> { Tuple(<<Addr1>>),
                    Tuple(<<Tuple(<<Str("New York"), Str("123 Main St"), PyInt(10001)>>)>>) }
      [] k = 4 -> { Tuple(<<List(<<Addr1, Addr2(m)>>)>>) : m \in Middles }
      [] k = 5 -> { Tuple(<<a, b, c>>) : a \in DecCol, b \in FltCol, c \in FltCol }
      [] k \in {6, 7} -> { Tuple(<<Dec(a), Flt(b), Flt(c)>>) :
                              a \in InfKinds, b \in InfKinds, c \in InfKinds }

(* Two rows per statement, one that passes the check and one that does     *)
(* not: the rows after the first of a result set, and the row the decoding *)
(* path the statement did not request yields, are drawn from these.        *)
FewRows(k) ==
    CASE k = 1 -> { Tuple(<<List(<<PyInt(1), PyInt(2), PyInt(3)>>)>>),
                    Tuple(<<List(<<PyInt(1), PyInt(2)>>)>>) }
      [] k = 2 -> { Tuple(<<List(<<Str("foo"), m, Str("bar")>>)>>) : m \in {None, Str("null")} }
      [] k = 3 -> Rows(3)
      [] k = 4 -> { Tuple(<<List(<<Addr1, Addr2(m)>>)>>) : m \in {None, Str("null")} }
      [] k = 5 -> { Tuple(<<Dec("NaN"), Flt("NaN"), Flt(c)>>) : c \in {"NaN", "finite"} }
      [] k = 6 -> { Tuple(<<Dec("Infinity"), Flt("Infinity"), Flt(c)>>) : c \in InfKinds }
      [] k = 7 -> { Tuple(<<Dec("-Infinity"), Flt("-Infinity"), Flt(c)>>) : c \in InfKinds }

(* Result sets of n rows: any first row, then rows of FewRows. *)
RECURSIVE Extras(_, _)
Extras(k, n) ==
    IF n = 0 THEN {<<>>}
    ELSE { <<r>> \o t : r \in FewRows(k), t \in Extras(k, n - 1) }

ResultSets(k) ==
    {<<>>} \cup { <<r>> \o t : r \in Rows(k),
                               t \in UNION { Extras(k, n) : n \in 0..(MaxRows - 1) } }

(* The answers the server can give to each statement. *)
Answers == [k \in 1..NumStmts |-> ResultSets(k)]
OtherAnswers == [k \in 1..NumStmts |-> FewRows(k)]

(***************************************************************************)
(* The runner.                                                             *)
(***************************************************************************)
Init ==
    /\ pc = "connect"
    /\ conn = "none"
    /\ cursor = "none"
    /\ cursorsOpened = 0
    /\ stmt = 1
    /\ field = 1
    /\ resultSet = <<>>
    /\ pos = 1
    /\ row = None
    /\ fetched = <<>>
    /\ otherPath = <<>>
    /\ sent = <<>>
    /\ connectAttempts = 0
    /\ connResponses = 0
    /\ responses = 0
    /\ outcome = "running"
    /\ failKind = "none"
    /\ failStmt = 0
    /\ failField = 0

(* Variant of Raise whose exception leaves the cursor as it is. *)
RaiseLeak(kind, k, f) ==
    /\ pc' = "done"
    /\ outcome' = "failed"
    /\ failKind' = kind
    /\ failStmt' = k
    /\ failField' = f
    /\ UNCHANGED cursor

(* An uncaught exception: it leaves the with block, whose exit closes the  *)
(* cursor if one is open, and ends the script.                             *)
Raise(kind, k, f) ==
    /\ pc' = "done"
    /\ outcome' = "failed"
    /\ failKind' = kind
    /\ failStmt' = k
    /\ failField' = f
    /\ cursor' = IF cursor = "open" THEN "closed" ELSE cursor

(* psycopg.connect(...) is called and blocks. *)
Connect ==
    /\ pc = "connect"
    /\ pc' = "connecting"
    /\ connectAttempts' = connectAttempts + 1
    /\ UNCHANGED <<conn, cursor, cursorsOpened, stmt, field, resultSet, pos,
                   row, fetched, otherPath, sent, connResponses, responses,
                   outcome, failKind, failStmt, failField>>

ServerAccept ==
    /\ pc = "connecting"
    /\ conn' = "open"
    /\ connResponses' = connResponses + 1
    /\ pc' = "cursor"
    /\ UNCHANGED <<cursor, cursorsOpened, stmt, field, resultSet, pos,
                   row, fetched, otherPath, sent, connectAttempts, responses,
                   outcome, failKind, failStmt, failField>>

(* Variant of ServerReject that tries to connect again. *)
ServerRejectRetry ==
    /\ pc = "connecting"
    /\ connResponses' = connResponses + 1
    /\ pc' = "connect"
    /\ UNCHANGED <<conn, cursor, cursorsOpened, stmt, field, resultSet, pos,
                   row, fetched, otherPath, sent, connectAttempts, responses,
                   outcome, failKind, failStmt, failField>>

ServerReject ==
    /\ pc = "connecting"
    /\ connResponses' = connResponses + 1
    /\ Raise("connect", 0, 0)
    /\ UNCHANGED <<conn, cursorsOpened, stmt, field, resultSet, pos,
                   row, fetched, otherPath, sent, connectAttempts, responses>>

(* with conn.cursor() as cur: *)
OpenCursor ==
    /\ pc = "cursor"
    /\ cursor' = "open"
    /\ cursorsOpened' = cursorsOpened + 1
    /\ pc' = "execute"
    /\ UNCHANGED <<conn, stmt, field, resultSet, pos,
                   row, fetched, otherPath, sent, connectAttempts, connResponses, responses,
                   outcome, failKind, failStmt, failField>>

(* cur.execute(sql, binary=...) sends the statement and blocks; on a       *)
(* closed cursor it raises without sending.                                *)
Execute ==
    /\ pc = "execute"
    /\ IF cursor = "open"
       THEN /\ sent' = Append(sent, [name |-> Statements[stmt].name,
                                     binary |-> Statements[stmt].binary,
                                     cur |-> cursorsOpened])
            /\ pc' = "executing"
            /\ UNCHANGED <<cursor, outcome, failKind, failStmt, failField>>
       ELSE /\ Raise("execute", stmt, 0)
            /\ UNCHANGED sent
    /\ UNCHANGED <<conn, cursorsOpened, stmt, field, resultSet, pos,
                   row, fetched, otherPath, connectAttempts, connResponses, responses>>

(* Variant of ServerRows in which the runner sends the next statement as   *)
(* soon as the result set arrives, before fetching and verifying it.       *)
ServerRowsPipelined ==
    /\ pc = "executing"
    /\ resultSet' \in Answers[stmt]
    /\ otherPath' \in { Append(otherPath, other) : other \in OtherAnswers[stmt] }
    /\ pos' = 1
    /\ responses' = responses + 1
    /\ stmt' = stmt + 1
    /\ pc' = IF stmt = NumStmts THEN "exit" ELSE "execute"
    /\ UNCHANGED <<conn, cursor, cursorsOpened, field,
                   row, fetched, sent, connectAttempts, connResponses,
                   outcome, failKind, failStmt, failField>>

(* The server answers the outstanding statement with a result set. *)
ServerRows ==
    /\ pc = "executing"
    /\ resultSet' \in Answers[stmt]
    /\ otherPath' \in { Append(otherPath, other) : other \in OtherAnswers[stmt] }
    /\ pos' = 1
    /\ responses' = responses + 1
    /\ pc' = "fetch"
    /\ UNCHANGED <<conn, cursor, cursorsOpened, stmt, field,
                   row, fetched, sent, connectAttempts, connResponses,
                   outcome, failKind, failStmt, failField>>

(* The server answers the outstanding statement with an error. *)
ServerError ==
    /\ pc = "executing"
    /\ responses' = responses + 1
    /\ Raise("execute", stmt, 0)
    /\ UNCHANGED <<conn, cursorsOpened, stmt, field, resultSet, pos,
                   row, fetched, otherPath, sent, connectAttempts, connResponses>>

(* cur.fetchone() *)
Fetch ==
    /\ pc = "fetch"
    /\ row' = FetchOne(resultSet, pos)
    /\ pos' = IF pos > Len(resultSet) THEN pos ELSE pos + 1
    /\ fetched' = Append(fetched, row')
    /\ field' = 1
    /\ pc' = "assert"
    /\ UNCHANGED <<conn, cursor, cursorsOpened, stmt, resultSet,
                   otherPath, sent, connectAttempts, connResponses, responses,
                   outcome, failKind, failStmt, failField>>

(* Variant of AssertPass that takes a new cursor for every statement. *)
AssertPassNewCursor ==
    /\ pc = "assert"
    /\ AssertOutcome(stmt, field, row) = "ok"
    /\ IF field < NumAsserts(stmt)
       THEN /\ field' = field + 1
            /\ UNCHANGED <<pc, stmt, cursorsOpened>>
       ELSE /\ stmt' = stmt + 1
            /\ pc' = IF stmt = NumStmts THEN "exit" ELSE "execute"
            /\ cursorsOpened' = IF stmt = NumStmts THEN cursorsOpened
                                ELSE cursorsOpened + 1
            /\ UNCHANGED field
    /\ UNCHANGED <<conn, cursor, resultSet, pos,
                   row, fetched, otherPath, sent, connectAttempts, connResponses, responses,
                   outcome, failKind, failStmt, failField>>

(* An assert that holds: on to the next assert, the next statement, or     *)
(* the end of the with block.                                              *)
AssertPass ==
    /\ pc = "assert"
    /\ AssertOutcome(stmt, field, row) = "ok"
    /\ IF field < NumAsserts(stmt)
       THEN /\ field' = field + 1
            /\ UNCHANGED <<pc, stmt>>
       ELSE /\ stmt' = stmt + 1
            /\ pc' = IF stmt = NumStmts THEN "exit" ELSE "execute"
            /\ UNCHANGED field
    /\ UNCHANGED <<conn, cursor, cursorsOpened, resultSet, pos,
                   row, fetched, otherPath, sent, connectAttempts, connResponses, responses,
                   outcome, failKind, failStmt, failField>>

(* Variant of AssertFail in which the failure is swallowed and the run     *)
(* goes on with the next statement.                                        *)
AssertFailSwallowed ==
    /\ pc = "assert"
    /\ AssertOutcome(stmt, field, row) # "ok"
    /\ stmt' = stmt + 1
    /\ pc' = IF stmt = NumStmts THEN "exit" ELSE "execute"
    /\ UNCHANGED <<conn, cursor, cursorsOpened, field, resultSet, pos,
                   row, fetched, otherPath, sent, connectAttempts, connResponses, responses,
                   outcome, failKind, failStmt, failField>>

(* An assert that does not hold, or whose expression raises. *)
AssertFail ==
    /\ pc = "assert"
    /\ AssertOutcome(stmt, field, row) # "ok"
    /\ Raise(AssertOutcome(stmt, field, row), stmt, field)
    /\ UNCHANGED <<conn, cursorsOpened, stmt, field, resultSet, pos,
                   row, fetched, otherPath, sent, connectAttempts, connResponses, responses>>

(* Normal exit of the with block closes the cursor; the function returns. *)
ExitWith ==
    /\ pc = "exit"
    /\ cursor' = "closed"
    /\ pc' = "done"
    /\ outcome' = "success"
    /\ UNCHANGED <<conn, cursorsOpened, stmt, field, resultSet, pos,
                   row, fetched, otherPath, sent, connectAttempts, connResponses, responses,
                   failKind, failStmt, failField>>

(* Variant of Next in which a blocked call gives up after a timeout. *)
NextWithTimeout ==
    \/ Connect
    \/ ServerAccept
    \/ ServerReject
    \/ OpenCursor
    \/ Execute
    \/ ServerRows
    \/ ServerError
    \/ Fetch
    \/ AssertPass
    \/ AssertFail
    \/ ExitWith
    \/ /\ pc \in {"connecting", "executing"}
       /\ Raise("execute", IF pc = "connecting" THEN 0 ELSE stmt, 0)
       /\ UNCHANGED <<conn, cursorsOpened, stmt, field, resultSet, pos,
                      row, fetched, otherPath, sent, connectAttempts,
                      connResponses, responses>>

Next ==
    \/ Connect
    \/ ServerAccept
    \/ ServerReject
    \/ OpenCursor
    \/ Execute
    \/ ServerRows
    \/ ServerError
    \/ Fetch
    \/ AssertPass
    \/ AssertFail
    \/ ExitWith

Spec == Init /\ [][Next]_vars

(* The runner always takes its next step and the server answers whatever   *)
(* is outstanding.                                                         *)
FairSpec == Spec /\ WF_vars(Next)

(***************************************************************************)
(* Properties.                                                             *)
(***************************************************************************)
Success == pc = "done" /\ outcome = "success"
Failed == pc = "done" /\ outcome = "failed"
CheckFailure == failKind \in {"assert", "type"}

(* Row r passes every assert of check k. *)
RowMatches(k, r) == \A f \in 1..NumAsserts(k) : AssertOutcome(k, f, r) = "ok"

(* The rows of the checks before the k-th were fetched and matched. *)
EarlierMatched(k) ==
    \A j \in 1..(k - 1) : j <= Len(fetched) /\ RowMatches(j, fetched[j])

AllSevenPassed ==
    /\ Len(sent) = NumStmts
    /\ Len(fetched) = NumStmts
    /\ EarlierMatched(NumStmts + 1)

(* The run failed at check failStmt, the first whose row does not match,   *)
(* and nothing was executed after it.                                      *)
FailedAtFirstMismatch ==
    /\ CheckFailure
    /\ failStmt \in 1..NumStmts
    /\ Len(sent) = failStmt
    /\ Len(fetched) = failStmt
    /\ ~RowMatches(failStmt, fetched[failStmt])
    /\ EarlierMatched(failStmt)

(* C1 as stated: every run ends either in success after all seven checks   *)
(* passed, or in a failure raised at the first check whose fetched row     *)
(* does not match.                                                         *)
C1_Original ==
    pc = "done" =>
        \/ outcome = "success" /\ AllSevenPassed
        \/ outcome = "failed" /\ FailedAtFirstMismatch

(* C1 amended: a run ends in success only after all seven checks passed,   *)
(* or in failure raised by the connection attempt, by the first statement  *)
(* the server answers with an error, or at the first check whose fetched   *)
(* row does not match; nothing is executed after the failure and success   *)
(* is never reported for a run that failed a check.                        *)
C1_Outcomes ==
    /\ outcome = "success" => pc = "done" /\ AllSevenPassed
    /\ outcome = "failed" =>
        /\ pc = "done"
        /\ \/ failKind = "connect" /\ sent = <<>> /\ fetched = <<>>
           \/ /\ failKind = "execute"
              /\ failStmt \in 1..NumStmts
              /\ Len(sent) = failStmt
              /\ Len(fetched) = failStmt - 1
              /\ EarlierMatched(failStmt)
           \/ FailedAtFirstMismatch

C1_Witness ==
    Failed /\ failKind = "assert" /\ failStmt = 3 /\ Len(sent) = 3

(* The number of times statement k was executed. *)
ExecCount(k) ==
    Cardinality({ i \in DOMAIN sent : sent[i].name = Statements[k].name })

(* C2: a connection failure, an execution failure and an assertion failure *)
(* are all fatal: the run is in the terminal failed state, connect was     *)
(* attempted at most once, each statement was executed at most once and    *)
(* no statement was sent after the one the error occurred at.              *)
C2_FatalNoRetry ==
    /\ connectAttempts <= 1
    /\ \A k \in 1..NumStmts : ExecCount(k) <= 1
    /\ failKind # "none" =>
        /\ pc = "done"
        /\ outcome = "failed"
        /\ Len(sent) = failStmt
        /\ responses <= failStmt

C2_Witness ==
    Failed /\ failKind = "execute" /\ failStmt = 4 /\ responses = 4

(* The check of the statement before stmt has just passed. *)
JustPassed == pc \in {"execute", "exit"} /\ stmt > 1

(* C3 as stated: the row must match, and a result set with zero rows or    *)
(* with more than one row makes the run fail at that statement, so a       *)
(* check that passed had a result set of exactly one row.                  *)
C3_Original ==
    JustPassed =>
        /\ Len(resultSet) = 1
        /\ RowMatches(stmt - 1, resultSet[1])

(* C3 amended: each check fetches the first row of its result set and that *)
(* row must match, otherwise the run fails at that statement; a result set *)
(* with zero rows fails; rows after the first are never fetched, so a      *)
(* result set with more than one row fails only if its first row does not  *)
(* match.                                                                  *)
C3_FirstRow ==
    /\ JustPassed =>
        /\ Len(resultSet) >= 1
        /\ RowMatches(stmt - 1, resultSet[1])
        /\ pos = 2
    /\ (Failed /\ CheckFailure) =>
        \/ Len(resultSet) = 0
        \/ ~RowMatches(failStmt, resultSet[1])
    /\ (pc = "done" /\ Len(fetched) >= 1 /\ Len(fetched) = Len(sent)
          /\ (Len(resultSet) = 0 \/ ~RowMatches(Len(fetched), resultSet[1]))) =>
        Failed /\ CheckFailure /\ failStmt = Len(fetched)

C3_Witness ==
    Failed /\ CheckFailure /\ failStmt = 2 /\ Len(resultSet) = 0

Order == << "int_array", "string_array", "row", "array_of_rows",
            "nan", "infinity", "neg_infinity" >>

(* C4: the statements are sent in the fixed order, statement k+1 only      *)
(* after the row of statement k was fetched and verified, with at most one *)
(* statement outstanding and none before the connection is established.    *)
C4_Sequential ==
    /\ Len(sent) <= NumStmts
    /\ \A i \in DOMAIN sent : sent[i].name = Order[i]
    /\ \A i \in DOMAIN sent : EarlierMatched(i)
    /\ Len(sent) - responses \in {0, 1}
    /\ sent # <<>> => conn = "open"
    /\ pc = "executing" <=> Len(sent) - responses = 1

C4_Witness ==
    pc = "executing" /\ Len(sent) = NumStmts /\ responses = NumStmts - 1

(* C5 as stated: every cursor executes at most one statement, and the      *)
(* cursor of statement k is released before statement k+1 is executed.     *)
C5_Original ==
    \A i, j \in DOMAIN sent : i # j => sent[i].cur # sent[j].cur

(* C5 amended: one cursor is acquired per run, it executes all the         *)
(* statements of the run, and it stays open from statement to statement    *)
(* until the run ends.                                                     *)
C5_OneCursor ==
    /\ cursorsOpened <= 1
    /\ \A i \in DOMAIN sent : sent[i].cur = 1
    /\ (sent # <<>> /\ pc # "done") => cursor = "open"

C5_Witness ==
    Len(sent) = NumStmts /\ cursor = "open" /\ pc = "fetch"

(* C6: once the cursor has been acquired it is closed in every terminal    *)
(* state, whether the run ended normally, by an execution error or by a    *)
(* failed assertion, and no statement is executed on a closed cursor.      *)
C6_CursorReleased ==
    /\ [](pc = "done" /\ cursorsOpened > 0 => cursor = "closed")
    /\ [][cursor = "closed" => sent' = sent]_vars

C6_Witness ==
    Failed /\ failKind = "execute" /\ failStmt = 2 /\ cursor = "closed"

(* Two decoded rows hold the same native values. *)
SameValue(a, b) == a = b \/ PyEq(a, b)

IsNaNField(v) == v # None /\ v[2] = "NaN"

(* The first of the three fields of row r that is not NaN (4 if none). *)
FirstNonNaN(r) ==
    IF ~IsNaNField(r[2][1]) THEN 1
    ELSE IF ~IsNaNField(r[2][2]) THEN 2
    ELSE IF ~IsNaNField(r[2][3]) THEN 3
    ELSE 4

(* The check of statement k has finished, and had a row to look at. *)
Checked(k) ==
    /\ Len(fetched) >= k
    /\ fetched[k] # None
    /\ stmt > k \/ (stmt = k /\ pc = "done")

(* C8: the fifth check passes if and only if the numeric, real and double  *)
(* fields are all NaN; otherwise the run fails at the fifth check, at the  *)
(* first field, in that order, that is not NaN.                            *)
C8_NaNPerField ==
    Checked(5) =>
        /\ stmt > 5 <=> FirstNonNaN(fetched[5]) = 4
        /\ stmt = 5 =>
            /\ Failed
            /\ CheckFailure
            /\ failStmt = 5
            /\ failField = FirstNonNaN(fetched[5])

C8_Witness ==
    /\ Failed
    /\ failStmt = 5
    /\ failField = 2
    /\ Checked(5)
    /\ fetched[5] = Tuple(<<Dec("NaN"), Flt("Infinity"), None>>)

IsStr(v) == v[1] = "str"

(* The element the null of statement k (2 or 4) decodes to: the middle     *)
(* element of the array, or the middle field of its second row.            *)
MiddleOf(k, r) ==
    IF k = 2 THEN r[2][1][2][2] ELSE r[2][1][2][2][2][2]

(* C9: the string-array check and the array-of-rows check pass only when   *)
(* the null position decoded to None; with any string there, "null" and    *)
(* the empty string included, the run fails at that check.                 *)
C9_NullIsNone ==
    \A k \in {2, 4} :
        Checked(k) =>
            /\ stmt > k => MiddleOf(k, fetched[k]) = None
            /\ IsStr(MiddleOf(k, fetched[k])) =>
                Failed /\ failKind = "assert" /\ failStmt = k

C9_Witness ==
    /\ Failed
    /\ failStmt = 4
    /\ Checked(4)
    /\ MiddleOf(4, fetched[4]) = Str("null")

Blocked == pc \in {"connecting", "executing"}

(* C10: when the server answers the connection attempt and every executed  *)
(* statement, the run reaches a terminal state, after at most seven        *)
(* statements; while a call is blocked nothing happens except the server's *)
(* answer, so without an answer the runner stays blocked.                  *)
C10_BlocksUntilAnswered ==
    /\ <>(pc = "done")
    /\ [](Len(sent) <= NumStmts)
    /\ [][Blocked => connResponses' + responses' = connResponses + responses + 1]_vars

C10_Witness ==
    Success /\ Len(sent) = NumStmts /\ responses = NumStmts /\ connResponses = 1
====
